---- MODULE Spec2Model ----
(***************************************************************************)
(* A model of the flynn log aggregator (logaggregator/aggregator.go and    *)
(* logaggregator/server.go).                                               *)
(*   Spec       a leader: the Aggregator's inbound queue, run loop and     *)
(*              pause rendezvous, syslog ingest connections, and the       *)
(*              replication handshake with followers.                      *)
(*   SpecFollow a follower: syslog ingest, discovery events, follow        *)
(*              (Dial, Flush, feed from the leader's stream).              *)
(*   SpecQuery  readers: LoadSnapshot, ReadLastN, ReadLastNAndSubscribe.   *)
(*   SpecCancel the readers with at most one filter and a consumer that    *)
(*              may stop receiving, under weak fairness.                   *)
(*   SpecShutdown  a leader that is shut down: Server.Shutdown step by     *)
(*              step, the run loop draining a.msgc and exiting.            *)
(*   SpecFollowShutdown  a follower that is shut down while following.     *)
(*   SpecLive   a leader's ingest and pause rendezvous under weak fairness. *)
(*   SpecLock   the goroutines taking a.bmu and the buffers' locks.        *)
(* ring.Buffer, Replicator, the snapshot codec and the filters are not     *)
(* part of these two files; they are modelled from their specification.    *)
(***************************************************************************)
EXTENDS Integers, Sequences, FiniteSets, TLC

\* ------------------------------------------------------------------ bounds
NumConns  == 2  \* syslog connections that may dial in
NumRepl   == 2  \* replication connections that may dial in
MaxGo     == 3  \* connection and follow goroutines started in one run
MaxFrames == 3  \* frames received in one run, over all streams
NumApps   == 2  \* distinct AppNames
NumPeers  == 1  \* addresses of other instances
MaxEvents == 2  \* discovery events delivered on s.eventc
MaxFollows == 2 \* follow goroutines started in one run
NumReaders == 1 \* concurrent ReadLastN / ReadLastNAndSubscribe calls
MaxN      == 2  \* largest n a reader asks for
MaxFilters == 2 \* longest filter list a reader passes
MaxOut    == 4  \* values sent by a producer that spins on a closed channel
SubCap    == 2  \* capacity of a subscriber channel of a ring.Buffer
MsgcCap   == 2  \* capacity of Aggregator.msgc (1000 in NewAggregator)
SinkCap   == 2  \* capacity of a follower sink of the Replicator
RingCap   == 2  \* capacity of a ring.Buffer

Conns   == 1..NumConns
Repls   == 1..NumRepl
Apps    == 1..NumApps
Addrs   == 0..NumPeers      \* address 0 is s.hb.Addr(), this instance
Follows == 1..MaxFollows
Readers == 1..NumReaders
\* The goroutines that take the aggregator's locks: the run loop, a Flush
\* caller, a CopyBuffers caller, a ReadLastN and a ReadLastNAndSubscribe.
Threads == {"run", "flush", "copy", "last", "sub"}

\* A parsed message: the path it arrived on ("syslog" connection src or
\* "follow" stream src), its position there, and its AppName.
Msg(via, src, seq, app) == [via |-> via, src |-> src, seq |-> seq, app |-> app]
NoMsg == Msg("none", 0, 0, 0)

VARIABLES
    \* Aggregator
    buffers,   \* a.buffers: AppName -> [present, messages, subs]
    subc,      \* the subscriber channel of each reader: [q, closed, lost]
    msgc,      \* a.msgc: the inbound queue
    runpc,     \* position of Aggregator.run: "select", "add", "paused"
    runmsg,    \* the message run has received and not yet added
    pmu,       \* a.pmu: the replication connection holding it, or 0
    \* history of the aggregator (not program state)
    enq,       \* every message a Feed call has enqueued, in order
    added,     \* every message run has Added, in order
    pausedEnq, \* whether a message has been enqueued while run was paused
    \* syslog connections (drainSyslogConn)
    spc,       \* position: "scan", "feedA", "feedR", "closed"
    scnt,      \* frames scanned so far
    smsg,      \* the message parsed from the current frame
    \* Replicator and replication connections (fillReplicationConn)
    rpc,       \* position of each replication connection
    snap,      \* the buffers each connection copied
    sinks,     \* the Replicator's sink of each connection: [reg, closed, q]
    sinkLog,   \* every message delivered on each sink, in order
    mark,      \* Len(added) when the connection's Pause returned
    \* monitorDiscoverd and the follow goroutines
    ctlpc,     \* position of monitorDiscoverd: "start", "events", "dial", "returned"
    ctladdr,   \* the address follow is dialling
    unfollowc, \* monitorDiscoverd's unfollowc: 0 (nil) or the goroutine it stops
    nevents,   \* discovery events consumed
    nfollow,   \* follow goroutines started
    fpc,       \* position of each follow goroutine
    fcnt,      \* frames it has scanned
    fmsg,      \* the message it is about to Feed
    unf,       \* each goroutine's unfollowc: "none", "open", "closed", "panic"
    flushMark, \* Len(enq) when follow last called Flush (history)
    ctlerr,    \* monitorDiscoverd's err: whether its last s.follow call failed
    \* LoadSnapshot
    lpc,       \* position: "scan", "feed", "done"
    lcnt,      \* frames scanned from the snapshot file
    lmsg,      \* the message about to be fed
    \* ReadLastN and ReadLastNAndSubscribe producers
    qpc,       \* position of each reader's goroutine
    qid,       \* its id argument
    qn,        \* its n argument
    qfil,      \* its filters argument
    qmsgs,     \* the buffered messages it still has to send
    qcur,      \* the live message it is about to send
    out,       \* every value it has sent on the channel it returned
    outClosed, \* whether it has closed that channel
    ncancel,   \* calls of the subscription's cancel function
    done,      \* whether the caller has signalled done
    qmark,     \* Len(added) when it read the buffer
    reading,   \* whether the caller still receives from the returned channel
    \* Server.Shutdown
    shpc,       \* position of Server.Shutdown
    msgcClosed, \* whether a.msgc has been closed
    feedPanic,  \* whether a Feed has sent on the closed a.msgc
    closeMark,  \* Len(added) when a.msgc was closed (history)
    \* the locks of the aggregator
    bmu,       \* a.bmu: the goroutine holding it, or "none"
    rmu,       \* the lock of each ring.Buffer: its holder, or "none"
    lkpc,      \* position of each goroutine in its locking sequence
    lkid       \* the buffer each goroutine is working on

aggVars  == <<buffers, subc, msgc, runpc, runmsg, pmu, enq, added, pausedEnq>>
sysVars  == <<spc, scnt, smsg>>
replVars == <<rpc, snap, sinks, sinkLog, mark>>
ctlVars  == <<ctlpc, ctladdr, unfollowc, nevents, nfollow, fpc, fcnt, fmsg, unf,
              flushMark, ctlerr>>
loadVars == <<lpc, lcnt, lmsg>>
qVars    == <<qpc, qid, qn, qfil, qmsgs, qcur, out, outClosed, ncancel, done, qmark,
              reading>>
shutVars == <<shpc, msgcClosed, feedPanic, closeMark>>
lockVars == <<bmu, rmu, lkpc, lkid>>
vars     == <<aggVars, sysVars, replVars, ctlVars, loadVars, qVars, shutVars,
              lockVars>>

\* ------------------------------------------------------------- ring.Buffer
NewBuffer == [present |-> TRUE, messages |-> <<>>, subs |-> {}]
NoBuffer  == [present |-> FALSE, messages |-> <<>>, subs |-> {}]
NoSub     == [q |-> <<>>, closed |-> FALSE, lost |-> FALSE]

LastN(s, n) ==
    IF Len(s) <= n THEN s ELSE SubSeq(s, Len(s) - n + 1, Len(s))

\* Buffer.Add: append, overwriting the oldest message of a full buffer.
BufferAdd(buf, m) ==
    [buf EXCEPT !.messages = LastN(Append(buf.messages, m), RingCap)]

\* Buffer.Add, the fan-out: a non-blocking enqueue on the channel of every
\* live subscriber; a full channel loses its oldest queued message.
BufferDeliver(buf, m) ==
    [r \in Readers |->
       IF r \notin buf.subs THEN subc[r]
       ELSE IF Len(subc[r].q) < SubCap
            THEN [subc[r] EXCEPT !.q = Append(@, m)]
            ELSE [subc[r] EXCEPT !.q = Append(Tail(@), m), !.lost = TRUE]]

\* Buffer.ReadLastN(n), n >= 0: the last min(n, count) messages.
BufferReadLastN(buf, n) == LastN(buf.messages, n)

\* Buffer.Clone().ReadAll(): the messages, oldest first.
BufferReadAll(buf) == buf.messages

\* ------------------------------------------------------------- Aggregator
\* getOrInitializeBuffer: the buffers map with a buffer for id.
getOrInitializeBuffer(bufs, id) ==
    IF bufs[id].present THEN bufs ELSE [bufs EXCEPT ![id] = NewBuffer]

\* Aggregator.Feed: a send on the buffered channel a.msgc. It blocks while
\* the channel is full; a send on the closed channel panics.
Feed(m) ==
    IF msgcClosed
    THEN feedPanic' = TRUE /\ UNCHANGED <<msgc, enq, pausedEnq>>
    ELSE /\ Len(msgc) < MsgcCap
         /\ msgc' = Append(msgc, m)
         /\ enq' = Append(enq, m)
         /\ pausedEnq' = (pausedEnq \/ runpc = "paused")
         /\ UNCHANGED feedPanic

\* Aggregator.CopyBuffers: the content of every buffer of the map.
CopyBuffers == [a \in Apps |-> BufferReadAll(buffers[a])]

\* Mutant of RunRecv: the loop takes the newest inbound message, not the oldest.
RunRecv_Newest ==
    /\ runpc = "select"
    /\ msgc # <<>>
    /\ runmsg' = msgc[Len(msgc)]
    /\ msgc' = SubSeq(msgc, 1, Len(msgc) - 1)
    /\ runpc' = "add"
    /\ UNCHANGED <<pausedEnq, shutVars, lockVars,
                   buffers, subc, pmu, enq, added, sysVars, replVars, ctlVars,
                   loadVars, qVars>>

\* run, case msg := <-a.msgc: receive the next inbound message.
RunRecv ==
    /\ runpc = "select"
    /\ msgc # <<>>
    /\ runmsg' = Head(msgc)
    /\ msgc' = Tail(msgc)
    /\ runpc' = "add"
    /\ UNCHANGED <<pausedEnq, shutVars, lockVars,
                   buffers, subc, pmu, enq, added, sysVars, replVars, ctlVars, loadVars, qVars>>

\* run: a.getOrInitializeBuffer(string(msg.AppName)).Add(msg)
RunAdd ==
    /\ runpc = "add"
    /\ buffers' = [getOrInitializeBuffer(buffers, runmsg.app) EXCEPT
                     ![runmsg.app] = BufferAdd(@, runmsg)]
    /\ subc' = BufferDeliver(buffers[runmsg.app], runmsg)
    /\ added' = Append(added, runmsg)
    /\ runmsg' = NoMsg
    /\ runpc' = "select"
    /\ UNCHANGED <<pausedEnq, shutVars, lockVars,
                   msgc, pmu, enq, sysVars, replVars, ctlVars, loadVars, qVars>>

\* Mutant of RunPauseRecv: the loop takes the pause request and goes on
\* selecting, without the send that waits for the resume.
RunPauseRecv_NoWait == runpc = "select" /\ runpc' = "select"

\* Mutant of RunPauseSend: the resume closure receives, but the loop stays
\* where it is.
RunPauseSend_Stay == runpc = "paused" /\ runpc' = "paused"

\* run, case <-a.pausec: the loop takes the pause request ...
RunPauseRecv == runpc = "select" /\ runpc' = "paused"
\* ... and blocks in a.pausec <- struct{}{} until a resume closure receives.
RunPauseSend == runpc = "paused" /\ runpc' = "select"

\* --------------------------------------------------------------- Replicator
NoSink == [reg |-> FALSE, closed |-> FALSE, q |-> <<>>]

\* Replicator.Feed: offer m to every registered sink without blocking; a
\* full sink is closed and taken out of the set.
ReplicatorFeed(m) ==
    /\ sinks' = [f \in Repls |->
                   IF ~sinks[f].reg THEN sinks[f]
                   ELSE IF Len(sinks[f].q) < SinkCap
                        THEN [sinks[f] EXCEPT !.q = Append(@, m)]
                        ELSE [sinks[f] EXCEPT !.reg = FALSE, !.closed = TRUE]]
    /\ sinkLog' = [f \in Repls |->
                     IF sinks[f].reg /\ Len(sinks[f].q) < SinkCap
                     THEN Append(sinkLog[f], m) ELSE sinkLog[f]]

\* Replicator.Register: a new empty sink in the set.
ReplicatorRegister(f) ==
    sinks' = [sinks EXCEPT ![f] = [reg |-> TRUE, closed |-> FALSE, q |-> <<>>]]

\* Frames scanned so far, over the syslog connections and the leaders' streams.
Frames ==
    LET RECURSIVE Sum(_, _)
        Sum(f, S) == IF S = {} THEN 0
                     ELSE LET x == CHOOSE x \in S : TRUE
                          IN f[x] + Sum(f, S \ {x})
    IN Sum(scnt, Conns) + Sum(fcnt, Follows) + lcnt

\* ------------------------------------------------- runSyslog, runReplication
\* Goroutines started so far: one per accepted syslog connection, one per
\* accepted replication connection, one per successful follow.
Started ==
    Cardinality({c \in Conns : spc[c] # "accept"})
      + Cardinality({f \in Repls : rpc[f] # "accept"})
      + nfollow

\* runSyslog: s.ll.Accept() returns a connection; drainSyslogConn starts.
SyslogAccept(c) ==
    /\ spc[c] = "accept"
    /\ shpc = "idle"
    /\ Started < MaxGo
    /\ spc' = [spc EXCEPT ![c] = "scan"]
    /\ UNCHANGED <<shutVars, lockVars,
                   aggVars, scnt, smsg, replVars, ctlVars, loadVars, qVars>>

\* -------------------------------------------------------- drainSyslogConn
\* sc.Scan() and rfc5424.Parse: the next frame, which parses or does not.
SyslogScan(c) ==
    /\ spc[c] = "scan"
    /\ Frames < MaxFrames
    /\ scnt' = [scnt EXCEPT ![c] = @ + 1]
    /\ \/ \E a \in Apps :
            /\ smsg' = [smsg EXCEPT ![c] = Msg("syslog", c, scnt[c] + 1, a)]
            /\ spc' = [spc EXCEPT ![c] = "feedA"]
       \/ UNCHANGED <<smsg, spc>>    \* parse error: logged, frame skipped
    /\ UNCHANGED <<shutVars, lockVars,
                   aggVars, replVars, ctlVars, loadVars, qVars>>

\* sc.Scan() returns false: the connection has ended, after the last frame
\* of the run, or it has been closed because s.shutdown is closed.
SyslogEOF(c) ==
    /\ spc[c] = "scan"
    /\ Frames = MaxFrames \/ shpc # "idle"
    /\ spc' = [spc EXCEPT ![c] = "closed"]
    /\ UNCHANGED <<shutVars, lockVars,
                   aggVars, scnt, smsg, replVars, ctlVars, loadVars, qVars>>

\* s.Aggregator.Feed(msg)
SyslogAggFeed(c) ==
    /\ spc[c] = "feedA"
    /\ Feed(smsg[c])
    /\ spc' = [spc EXCEPT ![c] = "feedR"]
    /\ UNCHANGED <<shpc, msgcClosed, closeMark, lockVars,
                   buffers, subc, runpc, runmsg, pmu, added, scnt, smsg, replVars, ctlVars, loadVars, qVars>>

\* s.Replicator.Feed(msg)
SyslogReplFeed(c) ==
    /\ spc[c] = "feedR"
    /\ ReplicatorFeed(smsg[c])
    /\ spc' = [spc EXCEPT ![c] = "scan"]
    /\ UNCHANGED <<shutVars, lockVars,
                   aggVars, scnt, smsg, rpc, snap, mark, ctlVars, loadVars, qVars>>

\* ---------------------------------------------------- fillReplicationConn
\* runReplication accepts a connection and starts fillReplicationConn.
ReplAccept(f) ==
    /\ rpc[f] = "accept"
    /\ shpc = "idle"
    /\ Started < MaxGo
    /\ rpc' = [rpc EXCEPT ![f] = "lock"]
    /\ UNCHANGED <<shutVars, lockVars,
                   aggVars, sysVars, snap, sinks, sinkLog, mark, ctlVars, loadVars, qVars>>

\* Mutant of PauseLock: Pause goes on without taking a.pmu.
PauseLock_NoMutex(f) ==
    /\ rpc[f] = "lock"
    /\ pmu' = f
    /\ rpc' = [rpc EXCEPT ![f] = "send"]
    /\ UNCHANGED <<pausedEnq, shutVars, lockVars,
                   buffers, subc, msgc, runpc, runmsg, enq, added, sysVars,
                   snap, sinks, sinkLog, mark, ctlVars, loadVars, qVars>>

\* Pause: a.pmu.Lock()
PauseLock(f) ==
    /\ rpc[f] = "lock"
    /\ pmu = 0
    /\ pmu' = f
    /\ rpc' = [rpc EXCEPT ![f] = "send"]
    /\ UNCHANGED <<pausedEnq, shutVars, lockVars,
                   buffers, subc, msgc, runpc, runmsg, enq, added, sysVars,
                   snap, sinks, sinkLog, mark, ctlVars, loadVars, qVars>>

\* Pause: a.pausec <- struct{}{}, received by run; Pause returns the closure.
PauseSend(f) ==
    /\ rpc[f] = "send"
    /\ RunPauseRecv
    /\ rpc' = [rpc EXCEPT ![f] = "copy"]
    /\ mark' = [mark EXCEPT ![f] = Len(added)]
    /\ UNCHANGED <<pausedEnq, shutVars, lockVars,
                   buffers, subc, msgc, runmsg, pmu, enq, added, sysVars,
                   snap, sinks, sinkLog, ctlVars, loadVars, qVars>>

\* buffers := s.Aggregator.CopyBuffers()
ReplCopy(f) ==
    /\ rpc[f] = "copy"
    /\ snap' = [snap EXCEPT ![f] = CopyBuffers]
    /\ rpc' = [rpc EXCEPT ![f] = "register"]
    /\ UNCHANGED <<shutVars, lockVars,
                   aggVars, sysVars, sinks, sinkLog, mark, ctlVars, loadVars, qVars>>

\* msgc := s.Replicator.Register(...)
ReplRegister(f) ==
    /\ rpc[f] = "register"
    /\ ReplicatorRegister(f)
    /\ rpc' = [rpc EXCEPT ![f] = "unpause"]
    /\ UNCHANGED <<shutVars, lockVars,
                   aggVars, sysVars, snap, sinkLog, mark, ctlVars, loadVars, qVars>>

\* unpause(): <-a.pausec, sent by run
Unpause(f) ==
    /\ rpc[f] = "unpause"
    /\ RunPauseSend
    /\ rpc' = [rpc EXCEPT ![f] = "unlock"]
    /\ UNCHANGED <<pausedEnq, shutVars, lockVars,
                   buffers, subc, msgc, runmsg, pmu, enq, added, sysVars,
                   snap, sinks, sinkLog, mark, ctlVars, loadVars, qVars>>

\* unpause(): a.pmu.Unlock()
UnpauseUnlock(f) ==
    /\ rpc[f] = "unlock"
    /\ pmu' = 0
    /\ rpc' = [rpc EXCEPT ![f] = "stream"]
    /\ UNCHANGED <<pausedEnq, shutVars, lockVars,
                   buffers, subc, msgc, runpc, runmsg, enq, added, sysVars,
                   snap, sinks, sinkLog, mark, ctlVars, loadVars, qVars>>

\* snapshot.StreamTo: after the copied buffers, write each message received
\* from the sink.
StreamTail(f) ==
    /\ rpc[f] = "stream"
    /\ sinks[f].q # <<>>
    /\ sinks' = [sinks EXCEPT ![f].q = Tail(@)]
    /\ UNCHANGED <<shutVars, lockVars,
                   aggVars, sysVars, rpc, snap, sinkLog, mark, ctlVars, loadVars, qVars>>

\* ---------------------------------------------------------- Aggregator.Flush
\* Buffer.Flush: discard the messages, keep the buffer.
BufferFlush(buf) == [buf EXCEPT !.messages = <<>>]

\* Aggregator.Flush: under a.bmu, Flush every buffer of the map.
Flush == buffers' = [a \in Apps |-> BufferFlush(buffers[a])]

\* ------------------------------------------------- monitorDiscoverd, follow
\* monitorDiscoverd, the initial s.srv.Leader(): no leader (or an error),
\* this instance, or another instance, which is followed.
CtlLeader ==
    /\ ctlpc = "start"
    /\ ctlerr' = FALSE
    /\ \/ ctlpc' = "events" /\ UNCHANGED ctladdr
       \/ \E addr \in Addrs :
            IF addr = 0
            THEN ctlpc' = "returned" /\ UNCHANGED ctladdr
            ELSE ctlpc' = "dial" /\ ctladdr' = addr
    /\ UNCHANGED <<shutVars, lockVars,
                   aggVars, sysVars, replVars, unfollowc, nevents, nfollow,
                   fpc, fcnt, fmsg, unf, flushMark, loadVars, qVars>>

\* close(ch): an open channel becomes closed; closing a channel that is
\* already closed panics.
CloseChan(ch) == IF ch = "open" THEN "closed" ELSE "panic"

\* monitorDiscoverd, an event of s.eventc of a kind other than
\* EventKindLeader: ignored.
CtlOtherEvent ==
    /\ ctlpc = "events"
    /\ shpc = "idle"
    /\ nevents < MaxEvents
    /\ nevents' = nevents + 1
    /\ UNCHANGED <<shutVars, lockVars, ctlerr, ctlpc, ctladdr, unf,
                   aggVars, sysVars, replVars, unfollowc, nfollow, fpc, fcnt, fmsg,
                   flushMark, loadVars, qVars>>

\* monitorDiscoverd, an EventKindLeader event for the instance at addr: the
\* unfollowc in hand, if any, is closed; then the new leader is followed or,
\* when the new leader is this instance, monitorDiscoverd returns.
CtlLeaderEvent(addr) ==
    /\ ctlpc = "events"
    /\ shpc = "idle"
    /\ nevents < MaxEvents
    /\ nevents' = nevents + 1
    /\ unf' = IF unfollowc # 0
              THEN [unf EXCEPT ![unfollowc] = CloseChan(@)] ELSE unf
    /\ IF addr # 0
       THEN ctlpc' = "dial" /\ ctladdr' = addr
       ELSE ctlpc' = "returned" /\ UNCHANGED ctladdr
    /\ UNCHANGED <<shutVars, lockVars, ctlerr,
                   aggVars, sysVars, replVars, unfollowc, nfollow, fpc, fcnt, fmsg,
                   flushMark, loadVars, qVars>>

\* monitorDiscoverd, one event of s.eventc.
CtlEvent == CtlOtherEvent \/ \E addr \in Addrs : CtlLeaderEvent(addr)

\* Mutant of FollowDialFail: follow flushes the buffers before it dials.
FollowDialFail_Flush ==
    /\ ctlpc = "dial"
    /\ Flush
    /\ unfollowc' = 0
    /\ ctlerr' = TRUE
    /\ ctlpc' = "events"
    /\ UNCHANGED <<pausedEnq, shutVars, lockVars, subc, msgc, runpc, runmsg, pmu, enq, added,
                   sysVars, replVars, ctladdr, nevents, nfollow,
                   fpc, fcnt, fmsg, unf, flushMark, loadVars, qVars>>

\* Mutant of FollowDialFail: the unfollowc in hand is kept when follow fails.
FollowDialFail_KeepChannel ==
    /\ ctlpc = "dial"
    /\ ctlerr' = TRUE
    /\ ctlpc' = "events"
    /\ UNCHANGED <<shutVars, lockVars, aggVars, sysVars, replVars, ctladdr, unfollowc,
                   nevents, nfollow, fpc, fcnt, fmsg, unf, flushMark, loadVars, qVars>>

\* follow: net.Dial fails; follow returns (nil, err).
FollowDialFail ==
    /\ ctlpc = "dial"
    /\ unfollowc' = 0
    /\ ctlerr' = TRUE
    /\ ctlpc' = "events"
    /\ UNCHANGED <<shutVars, lockVars,
                   aggVars, sysVars, replVars, ctladdr, nevents, nfollow,
                   fpc, fcnt, fmsg, unf, flushMark, loadVars, qVars>>

\* follow: net.Dial succeeds; s.Aggregator.Flush(); a new unfollowc and the
\* goroutine that scans the leader's stream.
FollowDialOK ==
    /\ ctlpc = "dial"
    /\ nfollow < MaxFollows
    /\ Started < MaxGo
    /\ Flush
    /\ ctlerr' = FALSE
    /\ flushMark' = Len(enq)
    /\ nfollow' = nfollow + 1
    /\ unfollowc' = nfollow + 1
    /\ unf' = [unf EXCEPT ![nfollow + 1] = "open"]
    /\ fpc' = [fpc EXCEPT ![nfollow + 1] = "scan"]
    /\ ctlpc' = "events"
    /\ UNCHANGED <<pausedEnq, shutVars, lockVars,
                   subc, msgc, runpc, runmsg, pmu, enq, added, sysVars, replVars,
                   ctladdr, nevents, fcnt, fmsg, loadVars, qVars>>

\* follow goroutine: sc.Scan() yields the next frame of the leader's stream,
\* then the select on unfollowc: return when it is closed.
FollowScan(g) ==
    /\ fpc[g] = "scan"
    /\ Frames < MaxFrames
    /\ fcnt' = [fcnt EXCEPT ![g] = @ + 1]
    /\ IF unf[g] = "closed"
       THEN fpc' = [fpc EXCEPT ![g] = "done"] /\ UNCHANGED fmsg
       ELSE \E a \in Apps :
              /\ fmsg' = [fmsg EXCEPT ![g] = Msg("follow", g, fcnt[g] + 1, a)]
              /\ fpc' = [fpc EXCEPT ![g] = "feed"]
    /\ UNCHANGED <<shutVars, lockVars, ctlerr,
                   aggVars, sysVars, replVars, ctlpc, ctladdr, unfollowc,
                   nevents, nfollow, unf, flushMark, loadVars, qVars>>

\* follow goroutine: sc.Scan() returns false, the leader's stream has ended.
FollowEOF(g) ==
    /\ fpc[g] = "scan"
    /\ Frames = MaxFrames
    /\ fpc' = [fpc EXCEPT ![g] = "done"]
    /\ UNCHANGED <<shutVars, lockVars, ctlerr,
                   aggVars, sysVars, replVars, ctlpc, ctladdr, unfollowc,
                   nevents, nfollow, fcnt, fmsg, unf, flushMark, loadVars, qVars>>

\* follow goroutine: s.Aggregator.Feed(sc.Message)
FollowFeed(g) ==
    /\ fpc[g] = "feed"
    /\ Feed(fmsg[g])
    /\ fpc' = [fpc EXCEPT ![g] = "scan"]
    /\ UNCHANGED <<shpc, msgcClosed, closeMark, lockVars, ctlerr,
                   buffers, subc, runpc, runmsg, pmu, added, sysVars, replVars,
                   ctlpc, ctladdr, unfollowc, nevents, nfollow, fcnt, fmsg, unf, flushMark, loadVars, qVars>>

\* ------------------------------------------------------------ LoadSnapshot
\* LoadSnapshot: sc.Scan() yields the next message of the snapshot file.
LoadScan ==
    /\ lpc = "scan"
    /\ Frames < MaxFrames
    /\ lcnt' = lcnt + 1
    /\ \E a \in Apps : lmsg' = Msg("snapshot", 0, lcnt + 1, a)
    /\ lpc' = "feed"
    /\ UNCHANGED <<shutVars, lockVars,
                   aggVars, sysVars, replVars, ctlVars, qVars>>

\* LoadSnapshot: s.Aggregator.Feed(sc.Message)
LoadFeed ==
    /\ lpc = "feed"
    /\ Feed(lmsg)
    /\ lpc' = "scan"
    /\ UNCHANGED <<shpc, msgcClosed, closeMark, lockVars,
                   buffers, subc, runpc, runmsg, pmu, added, sysVars, replVars,
                   ctlVars, lcnt, lmsg, qVars>>

\* LoadSnapshot: sc.Scan() returns false at the end of the file.
LoadEOF ==
    /\ lpc = "scan"
    /\ Frames = MaxFrames
    /\ lpc' = "done"
    /\ UNCHANGED <<shutVars, lockVars,
                   aggVars, sysVars, replVars, ctlVars, lcnt, lmsg, qVars>>

\* ------------------------------------------------------------------ filters
\* A filter is a predicate over a Message; it is represented by the set of
\* stream positions (seq) of the messages it matches.
FilterSet ==
    {S \in SUBSET (1..MaxFrames) : Cardinality(S) = MaxFrames - 1}

RECURSIVE SeqsUpTo(_, _)
SeqsUpTo(S, n) ==
    IF n = 0 THEN {<<>>}
    ELSE LET shorter == SeqsUpTo(S, n - 1)
         IN shorter \cup {Append(s, x) : s \in shorter, x \in S}

FilterLists == SeqsUpTo(FilterSet, MaxFilters)

\* allFiltersMatch: msg matches every filter of the list.
allFiltersMatch(msg, filters) ==
    \A i \in 1..Len(filters) : msg.seq \in filters[i]

\* filterMessages: the messages that match every filter, in order.
filterMessages(messages, filters) ==
    LET Keep(m) == allFiltersMatch(m, filters)
    IN SelectSeq(messages, Keep)

\* ------------------------------------------------------ Aggregator.ReadLastN
\* readLastN: nothing when id has no buffer; the last n messages when
\* n >= 0; every message otherwise.
readLastN(id, n) ==
    IF ~buffers[id].present THEN <<>>
    ELSE IF n >= 0 THEN BufferReadLastN(buffers[id], n)
    ELSE BufferReadAll(buffers[id])

\* Mutant of ReadLastNMessages: with filters, the last n messages are read
\* and then filtered.
ReadLastNMessages_CutFirst(id, n, filters) ==
    filterMessages(readLastN(id, n), filters)

\* ReadLastN, the messages to send: without filters readLastN(id, n); with
\* filters every buffered message that matches, cut to the last n when n > 0.
ReadLastNMessages(id, n, filters) ==
    IF Len(filters) = 0 THEN readLastN(id, n)
    ELSE LET messages == filterMessages(readLastN(id, 0 - 1), filters)
         IN IF n > 0 /\ Len(messages) > n THEN LastN(messages, n)
            ELSE messages

\* ReadLastN(id, n, filters, done) is called; its goroutine starts.
LastStartWith(r, id, n, filters) ==
    /\ qpc[r] = "idle"
    /\ qid' = [qid EXCEPT ![r] = id]
    /\ qn' = [qn EXCEPT ![r] = n]
    /\ qfil' = [qfil EXCEPT ![r] = filters]
    /\ qpc' = [qpc EXCEPT ![r] = "read"]
    /\ UNCHANGED <<shutVars, lockVars, reading,
                   aggVars, sysVars, replVars, ctlVars, loadVars,
                   qmsgs, qcur, out, outClosed, ncancel, done, qmark>>

\* ReadLastN is called, with any arguments.
LastStart(r) ==
    \E id \in Apps, n \in (0 - 1)..MaxN, filters \in FilterLists :
      LastStartWith(r, id, n, filters)

\* ReadLastN goroutine: read the buffer.
LastRead(r) ==
    /\ qpc[r] = "read"
    /\ qmsgs' = [qmsgs EXCEPT ![r] = ReadLastNMessages(qid[r], qn[r], qfil[r])]
    /\ qmark' = [qmark EXCEPT ![r] = Len(added)]
    /\ qpc' = [qpc EXCEPT ![r] = "lsend"]
    /\ UNCHANGED <<shutVars, lockVars, reading,
                   aggVars, sysVars, replVars, ctlVars, loadVars,
                   qid, qn, qfil, qcur, out, outClosed, ncancel, done>>

\* ReadLastN goroutine, the range over messages: send the next one, or
\* return on done; after the last one return. Returning closes the channel.
LastSend(r) ==
    /\ qpc[r] = "lsend"
    /\ \/ /\ qmsgs[r] # <<>>
          /\ reading[r]
          /\ out' = [out EXCEPT ![r] = Append(@, Head(qmsgs[r]))]
          /\ qmsgs' = [qmsgs EXCEPT ![r] = Tail(@)]
          /\ UNCHANGED <<qpc, outClosed>>
       \/ /\ qmsgs[r] = <<>> \/ done[r]
          /\ qpc' = [qpc EXCEPT ![r] = "ldone"]
          /\ outClosed' = [outClosed EXCEPT ![r] = TRUE]
          /\ UNCHANGED <<out, qmsgs>>
    /\ UNCHANGED <<shutVars, lockVars, reading,
                   aggVars, sysVars, replVars, ctlVars, loadVars,
                   qid, qn, qfil, qcur, ncancel, done, qmark>>

\* -------------------------------------------- Aggregator.ReadLastNAndSubscribe
\* ReadLastNAndSubscribe(id, n, filters, done) is called; its goroutine
\* starts.
SubStartWith(r, id, n, filters) ==
    /\ qpc[r] = "idle"
    /\ qid' = [qid EXCEPT ![r] = id]
    /\ qn' = [qn EXCEPT ![r] = n]
    /\ qfil' = [qfil EXCEPT ![r] = filters]
    /\ qpc' = [qpc EXCEPT ![r] = "getbuf"]
    /\ UNCHANGED <<shutVars, lockVars, reading,
                   aggVars, sysVars, replVars, ctlVars, loadVars,
                   qmsgs, qcur, out, outClosed, ncancel, done, qmark>>

\* ReadLastNAndSubscribe is called, with any arguments.
SubStart(r) ==
    \E id \in Apps, n \in (0 - 1)..MaxN, filters \in FilterLists :
      SubStartWith(r, id, n, filters)

\* buf := a.getOrInitializeBuffer(id)
SubGetBuffer(r) ==
    /\ qpc[r] = "getbuf"
    /\ buffers' = getOrInitializeBuffer(buffers, qid[r])
    /\ qpc' = [qpc EXCEPT ![r] = "subscribe"]
    /\ UNCHANGED <<pausedEnq, shutVars, lockVars, reading,
                   subc, msgc, runpc, runmsg, pmu, enq, added, sysVars,
                   replVars, ctlVars, loadVars,
                   qid, qn, qfil, qmsgs, qcur, out, outClosed, ncancel, done, qmark>>

\* Mutant of SubscribeRead: n = 0 reads every message, as n < 0 does.
SubscribeRead_ZeroAll(buf, n, filters) ==
    IF Len(filters) > 0 \/ n <= 0
    THEN BufferReadAll(buf)
    ELSE BufferReadLastN(buf, n)

\* The buffered messages ReadLastNAndSubscribe takes: all of them when there
\* are filters and n # 0, or when n < 0; the last n otherwise.
SubscribeRead(buf, n, filters) ==
    IF (Len(filters) > 0 /\ n # 0) \/ n < 0
    THEN BufferReadAll(buf)
    ELSE BufferReadLastN(buf, n)

\* The history ReadLastNAndSubscribe sends: with filters, the matching
\* messages, cut to the last n when n > 0.
SubscribeHistory(buf, n, filters) ==
    LET messages == SubscribeRead(buf, n, filters)
        kept == filterMessages(messages, filters)
    IN IF Len(filters) = 0 THEN messages
       ELSE IF n > 0 /\ Len(kept) > n THEN LastN(kept, n)
       ELSE kept

\* buf.ReadAllAndSubscribe() or buf.ReadLastNAndSubscribe(n): under the
\* buffer's lock, read the messages and add a subscriber.
SubSubscribe(r) ==
    /\ qpc[r] = "subscribe"
    /\ qmsgs' = [qmsgs EXCEPT ![r] =
                   SubscribeHistory(buffers[qid[r]], qn[r], qfil[r])]
    /\ buffers' = [buffers EXCEPT ![qid[r]].subs = @ \cup {r}]
    /\ subc' = [subc EXCEPT ![r] = NoSub]
    /\ qmark' = [qmark EXCEPT ![r] = Len(added)]
    /\ qpc' = [qpc EXCEPT ![r] = "hist"]
    /\ UNCHANGED <<pausedEnq, shutVars, lockVars, reading,
                   msgc, runpc, runmsg, pmu, enq, added, sysVars,
                   replVars, ctlVars, loadVars,
                   qid, qn, qfil, qcur, out, outClosed, ncancel, done>>

\* The deferred calls of the goroutine: close(msgc), then cancel(), which
\* detaches the subscriber and closes its channel.
SubReturn(r) ==
    /\ qpc' = [qpc EXCEPT ![r] = "done"]
    /\ outClosed' = [outClosed EXCEPT ![r] = TRUE]
    /\ ncancel' = [ncancel EXCEPT ![r] = @ + 1]
    /\ buffers' = [buffers EXCEPT ![qid[r]].subs = @ \ {r}]
    /\ subc' = [subc EXCEPT ![r].closed = TRUE]

\* The range over the history: send the next message, or return on done.
SubHistory(r) ==
    /\ qpc[r] = "hist"
    /\ \/ /\ qmsgs[r] # <<>>
          /\ reading[r]
          /\ out' = [out EXCEPT ![r] = Append(@, Head(qmsgs[r]))]
          /\ qmsgs' = [qmsgs EXCEPT ![r] = Tail(@)]
          /\ UNCHANGED <<qpc, outClosed, ncancel, buffers, subc>>
       \/ /\ qmsgs[r] = <<>>
          /\ qpc' = [qpc EXCEPT ![r] = "live"]
          /\ UNCHANGED <<out, qmsgs, outClosed, ncancel, buffers, subc>>
       \/ /\ qmsgs[r] # <<>>
          /\ done[r]
          /\ SubReturn(r)
          /\ UNCHANGED <<out, qmsgs>>
    /\ UNCHANGED <<pausedEnq, shutVars, lockVars, reading,
                   msgc, runpc, runmsg, pmu, enq, added, sysVars,
                   replVars, ctlVars, loadVars, qid, qn, qfil, qcur, done, qmark>>

\* The test made on a value received from subc: `if msgc == nil`, where
\* msgc is the channel ReadLastNAndSubscribe made and returned.
SubcWasClosed(msg) == FALSE

\* The live loop, case msg := <-subc: a queued message, or the zero value of
\* a closed channel. A message that matches the filters goes on to be sent.
\* What a filter answers for the zero value is not decided here: either.
SubLiveRecv(r) ==
    /\ qpc[r] = "live"
    /\ \/ /\ subc[r].q # <<>>
          /\ subc' = [subc EXCEPT ![r].q = Tail(@)]
          /\ IF allFiltersMatch(Head(subc[r].q), qfil[r])
             THEN /\ qcur' = [qcur EXCEPT ![r] = Head(subc[r].q)]
                  /\ qpc' = [qpc EXCEPT ![r] = "send"]
             ELSE UNCHANGED <<qcur, qpc>>
          /\ UNCHANGED <<buffers, outClosed, ncancel>>
       \/ /\ subc[r].q = <<>>
          /\ subc[r].closed
          /\ Len(out[r]) < MaxOut
          /\ IF SubcWasClosed(NoMsg)
             THEN SubReturn(r) /\ UNCHANGED qcur
             ELSE /\ \/ /\ qcur' = [qcur EXCEPT ![r] = NoMsg]
                        /\ qpc' = [qpc EXCEPT ![r] = "send"]
                     \/ /\ Len(qfil[r]) > 0
                        /\ UNCHANGED <<qcur, qpc>>
                  /\ UNCHANGED <<buffers, subc, outClosed, ncancel>>
    /\ UNCHANGED <<pausedEnq, shutVars, lockVars, reading,
                   msgc, runpc, runmsg, pmu, enq, added, sysVars,
                   replVars, ctlVars, loadVars,
                   qid, qn, qfil, qmsgs, out, done, qmark>>

\* The live loop, the inner select: send the message, or return on done.
SubLiveSend(r) ==
    /\ qpc[r] = "send"
    /\ \/ /\ reading[r]
          /\ out' = [out EXCEPT ![r] = Append(@, qcur[r])]
          /\ qpc' = [qpc EXCEPT ![r] = "live"]
          /\ UNCHANGED <<buffers, subc, outClosed, ncancel>>
       \/ /\ done[r]
          /\ SubReturn(r)
          /\ UNCHANGED out
    /\ qcur' = [qcur EXCEPT ![r] = NoMsg]
    /\ UNCHANGED <<pausedEnq, shutVars, lockVars, reading,
                   msgc, runpc, runmsg, pmu, enq, added, sysVars,
                   replVars, ctlVars, loadVars,
                   qid, qn, qfil, qmsgs, done, qmark>>

\* Mutant of SubLiveDone: the live loop takes the done signal and goes on.
SubLiveDone_Ignore(r) ==
    /\ qpc[r] = "live"
    /\ done[r]
    /\ UNCHANGED vars

\* The live loop, case <-done: return.
SubLiveDone(r) ==
    /\ qpc[r] = "live"
    /\ done[r]
    /\ SubReturn(r)
    /\ UNCHANGED <<pausedEnq, shutVars, lockVars, reading,
                   msgc, runpc, runmsg, pmu, enq, added, sysVars,
                   replVars, ctlVars, loadVars,
                   qid, qn, qfil, qmsgs, qcur, out, done, qmark>>

\* The caller signals done.
DoneSignal(r) ==
    /\ qpc[r] # "idle"
    /\ ~done[r]
    /\ done' = [done EXCEPT ![r] = TRUE]
    /\ UNCHANGED <<shutVars, lockVars, reading,
                   aggVars, sysVars, replVars, ctlVars, loadVars,
                   qpc, qid, qn, qfil, qmsgs, qcur, out, outClosed, ncancel, qmark>>

\* The caller stops receiving from the channel it was returned.
ConsumerStops(r) ==
    /\ qpc[r] # "idle"
    /\ reading[r]
    /\ reading' = [reading EXCEPT ![r] = FALSE]
    /\ UNCHANGED <<aggVars, sysVars, replVars, ctlVars, loadVars, shutVars, lockVars,
                   qpc, qid, qn, qfil, qmsgs, qcur, out, outClosed, ncancel, done,
                   qmark>>

\* The buffer is torn down: the channel of a live subscriber is closed.
SubscriberClose(r) ==
    /\ r \in buffers[qid[r]].subs
    /\ buffers' = [buffers EXCEPT ![qid[r]].subs = @ \ {r}]
    /\ subc' = [subc EXCEPT ![r].closed = TRUE]
    /\ UNCHANGED <<pausedEnq, shutVars, lockVars,
                   msgc, runpc, runmsg, pmu, enq, added, sysVars,
                   replVars, ctlVars, loadVars, qVars>>

\* ------------------------------------------------------------ Server.Shutdown
\* Mutant of RunExit: the loop returns as soon as a.msgc is closed, whatever
\* is still queued.
RunExit_NoDrain ==
    /\ runpc = "select"
    /\ msgcClosed
    /\ runpc' = "exited"
    /\ UNCHANGED <<pausedEnq, buffers, subc, msgc, runmsg, pmu, enq, added, sysVars, replVars,
                   ctlVars, loadVars, qVars, shutVars, lockVars>>

\* run, case msg, ok := <-a.msgc with ok false: the channel is closed and
\* empty; the loop returns.
RunExit ==
    /\ runpc = "select"
    /\ msgcClosed
    /\ msgc = <<>>
    /\ runpc' = "exited"
    /\ UNCHANGED <<pausedEnq, buffers, subc, msgc, runmsg, pmu, enq, added, sysVars, replVars,
                   ctlVars, loadVars, qVars, shutVars, lockVars>>

\* Aggregator.Shutdown: close(a.msgc)
AggregatorShutdown == msgcClosed' = TRUE

\* Replicator.Shutdown: every sink is closed and taken out of the set.
ReplicatorShutdown ==
    sinks' = [f \in Repls |->
                IF sinks[f].reg THEN [sinks[f] EXCEPT !.reg = FALSE, !.closed = TRUE]
                ELSE sinks[f]]

\* Shutdown: the event stream, the heartbeater and the three listeners are
\* closed, then s.shutdown.
ShutdownClose ==
    /\ shpc = "idle"
    /\ shpc' = "lwait"
    /\ UNCHANGED <<aggVars, sysVars, replVars, ctlVars, loadVars, qVars,
                   msgcClosed, feedPanic, closeMark, lockVars>>

\* Shutdown: s.lwg.Wait() returns when every syslog connection goroutine has
\* finished.
ShutdownLwgWait ==
    /\ shpc = "lwait"
    /\ \A c \in Conns : spc[c] \in {"accept", "closed"}
    /\ shpc' = "agg"
    /\ UNCHANGED <<aggVars, sysVars, replVars, ctlVars, loadVars, qVars,
                   msgcClosed, feedPanic, closeMark, lockVars>>

\* Shutdown: s.Aggregator.Shutdown()
ShutdownAggregator ==
    /\ shpc = "agg"
    /\ AggregatorShutdown
    /\ closeMark' = Len(added)
    /\ shpc' = "repl"
    /\ UNCHANGED <<aggVars, sysVars, replVars, ctlVars, loadVars, qVars,
                   feedPanic, lockVars>>

\* Shutdown: s.Replicator.Shutdown()
ShutdownReplicator ==
    /\ shpc = "repl"
    /\ ReplicatorShutdown
    /\ shpc' = "rwait"
    /\ UNCHANGED <<aggVars, sysVars, rpc, snap, sinkLog, mark, ctlVars, loadVars,
                   qVars, msgcClosed, feedPanic, closeMark, lockVars>>

\* Shutdown: s.rwg.Wait() returns when every replication connection
\* goroutine has finished; Shutdown returns.
ShutdownRwgWait ==
    /\ shpc = "rwait"
    /\ \A f \in Repls : rpc[f] \in {"accept", "done"}
    /\ shpc' = "returned"
    /\ UNCHANGED <<aggVars, sysVars, replVars, ctlVars, loadVars, qVars,
                   msgcClosed, feedPanic, closeMark, lockVars>>

\* snapshot.StreamTo returns once the sink is closed and drained;
\* fillReplicationConn returns.
StreamEnd(f) ==
    /\ rpc[f] = "stream"
    /\ sinks[f].closed
    /\ sinks[f].q = <<>>
    /\ rpc' = [rpc EXCEPT ![f] = "done"]
    /\ UNCHANGED <<aggVars, sysVars, snap, sinks, sinkLog, mark, ctlVars, loadVars,
                   qVars, shutVars, lockVars>>

\* monitorDiscoverd: s.eventc is closed with the event stream; the range
\* over it ends and monitorDiscoverd returns.
CtlEnd ==
    /\ ctlpc = "events"
    /\ shpc # "idle"
    /\ ctlpc' = "returned"
    /\ UNCHANGED <<aggVars, sysVars, replVars, ctladdr, unfollowc, nevents, nfollow,
                   fpc, fcnt, fmsg, unf, flushMark, ctlerr, loadVars, qVars,
                   shutVars, lockVars>>

\* ------------------------------------------------------- a.bmu, buffer locks
\* The locking sequences of the aggregator's goroutines. othVars is every
\* variable but the locks'.
othVars == <<aggVars, sysVars, replVars, ctlVars, loadVars, qVars, shutVars>>

\* The goroutines that look one buffer up and then call a method on it: run
\* (getOrInitializeBuffer, Add), ReadLastN (getBuffer, ReadLastN or ReadAll)
\* and ReadLastNAndSubscribe (getOrInitializeBuffer, ...AndSubscribe, cancel).
LookupThreads == {"run", "last", "sub"}

\* The goroutines that walk the whole map: Flush and CopyBuffers.
SweepThreads == {"flush", "copy"}

\* getBuffer, getOrInitializeBuffer: a.bmu.Lock()
LookupLock(t) ==
    /\ t \in LookupThreads
    /\ lkpc[t] = "idle"
    /\ bmu = "none"
    /\ bmu' = t
    /\ \E id \in Apps : lkid' = [lkid EXCEPT ![t] = id]
    /\ lkpc' = [lkpc EXCEPT ![t] = "map"]
    /\ UNCHANGED <<rmu, othVars>>

\* Mutant of LookupUnlock: the buffer is returned with a.bmu still held.
LookupUnlock_Keep(t) ==
    /\ t \in LookupThreads
    /\ lkpc[t] = "map"
    /\ lkpc' = [lkpc EXCEPT ![t] = "got"]
    /\ UNCHANGED <<bmu, rmu, lkid, othVars>>

\* getBuffer, getOrInitializeBuffer: return buf, with the deferred
\* a.bmu.Unlock()
LookupUnlock(t) ==
    /\ t \in LookupThreads
    /\ lkpc[t] = "map"
    /\ bmu' = "none"
    /\ lkpc' = [lkpc EXCEPT ![t] = "got"]
    /\ UNCHANGED <<rmu, lkid, othVars>>

\* Add, ReadLastN, ReadAll, ReadLastNAndSubscribe, ReadAllAndSubscribe on
\* the buffer that was looked up: the method takes the buffer's lock.
BufferLock(t) ==
    /\ t \in LookupThreads
    /\ lkpc[t] = "got"
    /\ rmu[lkid[t]] = "none"
    /\ rmu' = [rmu EXCEPT ![lkid[t]] = t]
    /\ lkpc' = [lkpc EXCEPT ![t] = "buf"]
    /\ UNCHANGED <<bmu, lkid, othVars>>

\* The method returns and releases the buffer's lock. run and ReadLastN are
\* done with the buffer; ReadLastNAndSubscribe still has cancel to call.
BufferUnlock(t) ==
    /\ t \in LookupThreads
    /\ lkpc[t] = "buf"
    /\ rmu' = [rmu EXCEPT ![lkid[t]] = "none"]
    /\ lkpc' = [lkpc EXCEPT ![t] = IF t = "sub" THEN "subscribed" ELSE "idle"]
    /\ UNCHANGED <<bmu, lkid, othVars>>

\* ReadLastNAndSubscribe returns: the deferred cancel() takes the buffer's
\* lock to remove the subscriber ...
CancelLock ==
    /\ lkpc["sub"] = "subscribed"
    /\ rmu[lkid["sub"]] = "none"
    /\ rmu' = [rmu EXCEPT ![lkid["sub"]] = "sub"]
    /\ lkpc' = [lkpc EXCEPT !["sub"] = "cancel"]
    /\ UNCHANGED <<bmu, lkid, othVars>>

\* ... and releases it.
CancelUnlock ==
    /\ lkpc["sub"] = "cancel"
    /\ rmu' = [rmu EXCEPT ![lkid["sub"]] = "none"]
    /\ lkpc' = [lkpc EXCEPT !["sub"] = "idle"]
    /\ UNCHANGED <<bmu, lkid, othVars>>

\* Flush, CopyBuffers: a.bmu.Lock(), then the range over a.buffers.
SweepLock(t) ==
    /\ t \in SweepThreads
    /\ lkpc[t] = "idle"
    /\ bmu = "none"
    /\ bmu' = t
    /\ lkid' = [lkid EXCEPT ![t] = 1]
    /\ lkpc' = [lkpc EXCEPT ![t] = "map"]
    /\ UNCHANGED <<rmu, othVars>>

\* Flush: buf.Flush(); CopyBuffers: buf.Clone(): the method takes the lock
\* of the buffer the range is at ...
SweepBufferLock(t) ==
    /\ t \in SweepThreads
    /\ lkpc[t] = "map"
    /\ rmu[lkid[t]] = "none"
    /\ rmu' = [rmu EXCEPT ![lkid[t]] = t]
    /\ lkpc' = [lkpc EXCEPT ![t] = "buf"]
    /\ UNCHANGED <<bmu, lkid, othVars>>

\* ... and releases it; the range goes on to the next buffer, or ends.
SweepBufferUnlock(t) ==
    /\ t \in SweepThreads
    /\ lkpc[t] = "buf"
    /\ rmu' = [rmu EXCEPT ![lkid[t]] = "none"]
    /\ IF lkid[t] < NumApps
       THEN /\ lkid' = [lkid EXCEPT ![t] = @ + 1]
            /\ lkpc' = [lkpc EXCEPT ![t] = "map"]
       ELSE /\ lkpc' = [lkpc EXCEPT ![t] = "end"]
            /\ UNCHANGED lkid
    /\ UNCHANGED <<bmu, othVars>>

\* Flush, CopyBuffers: a.bmu.Unlock()
SweepUnlock(t) ==
    /\ t \in SweepThreads
    /\ lkpc[t] = "end"
    /\ bmu' = "none"
    /\ lkpc' = [lkpc EXCEPT ![t] = "idle"]
    /\ UNCHANGED <<rmu, lkid, othVars>>

\* ------------------------------------------------------------ specification
Init ==
    /\ buffers = [a \in Apps |-> NoBuffer]
    /\ msgc = <<>>
    /\ runpc = "select"
    /\ runmsg = NoMsg
    /\ pmu = 0
    /\ enq = <<>>
    /\ added = <<>>
    /\ pausedEnq = FALSE
    /\ spc = [c \in Conns |-> "accept"]
    /\ scnt = [c \in Conns |-> 0]
    /\ smsg = [c \in Conns |-> NoMsg]
    /\ rpc = [f \in Repls |-> "accept"]
    /\ snap = [f \in Repls |-> [a \in Apps |-> <<>>]]
    /\ sinks = [f \in Repls |-> NoSink]
    /\ sinkLog = [f \in Repls |-> <<>>]
    /\ mark = [f \in Repls |-> 0]
    /\ ctlpc = "start"
    /\ ctladdr = 0
    /\ unfollowc = 0
    /\ nevents = 0
    /\ nfollow = 0
    /\ fpc = [g \in Follows |-> "unborn"]
    /\ fcnt = [g \in Follows |-> 0]
    /\ fmsg = [g \in Follows |-> NoMsg]
    /\ unf = [g \in Follows |-> "none"]
    /\ flushMark = 0
    /\ subc = [r \in Readers |-> NoSub]
    /\ lpc = "scan"
    /\ lcnt = 0
    /\ lmsg = NoMsg
    /\ qpc = [r \in Readers |-> "idle"]
    /\ qid = [r \in Readers |-> 1]
    /\ qn = [r \in Readers |-> 0]
    /\ qfil = [r \in Readers |-> <<>>]
    /\ qmsgs = [r \in Readers |-> <<>>]
    /\ qcur = [r \in Readers |-> NoMsg]
    /\ out = [r \in Readers |-> <<>>]
    /\ outClosed = [r \in Readers |-> FALSE]
    /\ ncancel = [r \in Readers |-> 0]
    /\ done = [r \in Readers |-> FALSE]
    /\ qmark = [r \in Readers |-> 0]
    /\ reading = [r \in Readers |-> TRUE]
    /\ ctlerr = FALSE
    /\ shpc = "idle"
    /\ msgcClosed = FALSE
    /\ feedPanic = FALSE
    /\ closeMark = 0
    /\ bmu = "none"
    /\ rmu = [a \in Apps |-> "none"]
    /\ lkpc = [t \in Threads |-> "idle"]
    /\ lkid = [t \in Threads |-> 1]

\* The aggregator's run loop.
Run == RunRecv \/ RunAdd

\* A syslog connection, from Accept to the end of its stream.
Syslog(c) ==
    \/ SyslogAccept(c)
    \/ SyslogScan(c)
    \/ SyslogEOF(c)
    \/ SyslogAggFeed(c)
    \/ SyslogReplFeed(c)

\* A replication connection, from Accept to the streaming of the tail.
Replication(f) ==
    \/ ReplAccept(f)
    \/ PauseLock(f)
    \/ PauseSend(f)
    \/ ReplCopy(f)
    \/ ReplRegister(f)
    \/ Unpause(f)
    \/ UnpauseUnlock(f)
    \/ StreamTail(f)

\* The discovery monitor and the follow goroutines it starts.
Monitor ==
    \/ CtlLeader
    \/ CtlEvent
    \/ FollowDialFail
    \/ FollowDialOK
    \/ \E g \in Follows : FollowScan(g) \/ FollowEOF(g) \/ FollowFeed(g)

\* An instance that is the leader: monitorDiscoverd has returned at once;
\* syslog and replication connections are served.
Next ==
    \/ Run
    \/ \E c \in Conns : Syslog(c)
    \/ \E f \in Repls : Replication(f)

Spec == Init /\ [][Next]_vars

\* An instance that follows: the discovery monitor and its follow goroutines
\* run beside the syslog connections.
NextFollow ==
    \/ Run
    \/ \E c \in Conns : Syslog(c)
    \/ Monitor

SpecFollow == Init /\ [][NextFollow]_vars

\* The snapshot file being loaded into the aggregator.
Load == LoadScan \/ LoadFeed \/ LoadEOF

\* A ReadLastN call and its goroutine.
ReadLastN(r) == LastStart(r) \/ LastRead(r) \/ LastSend(r)

\* A ReadLastNAndSubscribe call and its goroutine.
ReadLastNAndSubscribe(r) ==
    \/ SubStart(r)
    \/ SubGetBuffer(r)
    \/ SubSubscribe(r)
    \/ SubHistory(r)
    \/ SubLiveRecv(r)
    \/ SubLiveSend(r)
    \/ SubLiveDone(r)

\* Queries against an aggregator that is being fed.
NextQuery ==
    \/ Run
    \/ Load
    \/ \E r \in Readers : ReadLastN(r)
    \/ \E r \in Readers : ReadLastNAndSubscribe(r)
    \/ \E r \in Readers : DoneSignal(r)
    \/ \E r \in Readers : SubscriberClose(r)

SpecQuery == Init /\ [][NextQuery]_vars

\* Queries, with at most one filter, whose caller may signal done and may
\* stop receiving. Every goroutine that can take a step eventually takes one.
NextCancel ==
    \/ Run
    \/ Load
    \/ \E r \in Readers, id \in Apps, n \in (0 - 1)..MaxN,
          filters \in SeqsUpTo(FilterSet, 1) :
          LastStartWith(r, id, n, filters) \/ SubStartWith(r, id, n, filters)
    \/ \E r \in Readers : LastRead(r) \/ LastSend(r)
    \/ \E r \in Readers :
          \/ SubGetBuffer(r)
          \/ SubSubscribe(r)
          \/ SubHistory(r)
          \/ SubLiveRecv(r)
          \/ SubLiveSend(r)
          \/ SubLiveDone(r)
    \/ \E r \in Readers : DoneSignal(r)
    \/ \E r \in Readers : ConsumerStops(r)

FairCancel ==
    /\ WF_vars(Run)
    /\ \A r \in Readers :
         /\ WF_vars(LastRead(r))
         /\ WF_vars(LastSend(r))
         /\ WF_vars(SubGetBuffer(r))
         /\ WF_vars(SubSubscribe(r))
         /\ WF_vars(SubHistory(r))
         /\ WF_vars(SubLiveSend(r))
         /\ WF_vars(SubLiveDone(r))

SpecCancel == Init /\ [][NextCancel]_vars /\ FairCancel

\* Server.Shutdown, from the closing of the listeners to its return.
Shutdown ==
    \/ ShutdownClose
    \/ ShutdownLwgWait
    \/ ShutdownAggregator
    \/ ShutdownReplicator
    \/ ShutdownRwgWait

\* A leader that is shut down while it serves the syslog connections and a
\* replication connection.
NextShutdown ==
    \/ Run
    \/ RunExit
    \/ \E c \in Conns : Syslog(c)
    \/ Replication(1) \/ StreamEnd(1)
    \/ Shutdown

SpecShutdown == Init /\ [][NextShutdown]_vars

\* A leader whose callers of Pause resume and whose goroutines are scheduled
\* fairly: the run loop and every step of a replication connection from the
\* Lock in Pause to the Unlock in the resume closure are taken if they stay
\* possible. One syslog connection feeds it; what the followers do with
\* their streams after the resume is left out (Replicator.Feed never waits
\* for a follower).
NextLive ==
    \/ Run
    \/ Syslog(1)
    \/ \E f \in Repls :
          \/ ReplAccept(f)
          \/ PauseLock(f)
          \/ PauseSend(f)
          \/ ReplCopy(f)
          \/ ReplRegister(f)
          \/ Unpause(f)
          \/ UnpauseUnlock(f)

FairLive ==
    /\ WF_vars(Run)
    /\ \A f \in Repls :
         /\ WF_vars(PauseLock(f))
         /\ WF_vars(PauseSend(f))
         /\ WF_vars(ReplCopy(f))
         /\ WF_vars(ReplRegister(f))
         /\ WF_vars(Unpause(f))
         /\ WF_vars(UnpauseUnlock(f))

SpecLive == Init /\ [][NextLive]_vars /\ FairLive

\* The goroutines of the aggregator taking and releasing a.bmu and the
\* buffers' locks, each calling its operation again and again.
NextLock ==
    \/ \E t \in LookupThreads :
          LookupLock(t) \/ LookupUnlock(t) \/ BufferLock(t) \/ BufferUnlock(t)
    \/ CancelLock
    \/ CancelUnlock
    \/ \E t \in SweepThreads :
          \/ SweepLock(t)
          \/ SweepBufferLock(t)
          \/ SweepBufferUnlock(t)
          \/ SweepUnlock(t)

SpecLock == Init /\ [][NextLock]_vars

\* A follower that is shut down while it follows a leader: the discovery
\* monitor, its follow goroutines and the run loop.
NextFollowShutdown ==
    \/ Run
    \/ RunExit
    \/ Monitor
    \/ CtlEnd
    \/ Shutdown

SpecFollowShutdown == Init /\ [][NextFollowShutdown]_vars

\* ------------------------------------------------------------------ helpers
Range(s) == {s[i] : i \in 1..Len(s)}

IsPrefix(s, t) == Len(s) <= Len(t) /\ SubSeq(t, 1, Len(s)) = s

\* The messages of s whose AppName is a, in order.
ByApp(s, a) ==
    LET Is(m) == m.app = a
    IN SelectSeq(s, Is)

\* The position of message m in the log s (messages are distinct).
Pos(s, m) == CHOOSE i \in 1..Len(s) : s[i] = m

\* What the buffer of id holds after the first k Adds of the run loop.
BufferAfter(k, id) == LastN(ByApp(SubSeq(added, 1, k), id), RingCap)

\* Pause has returned to f and f has not yet called the resume closure.
HoldsResume(f) == rpc[f] \in {"copy", "register", "unpause"}

\* f is between a.pmu.Lock() in Pause and a.pmu.Unlock() in the closure.
InPause(f) == rpc[f] \in {"send", "copy", "register", "unpause", "unlock"}

\* The syslog connection that parsed m has returned from Replicator.Feed(m).
ReplicatorFed(m) ==
    ~ \E c \in Conns : smsg[c] = m /\ spc[c] \in {"feedA", "feedR"}

\* ------------------------------------------------------------------- claims
\* C1: gap-free replication. For a follower whose handshake is complete and
\* whose sink has not overflowed, every message added to a leader buffer
\* after the snapshot point, not contained in the snapshot, and already
\* offered to the Replicator by its syslog connection, has been delivered on
\* the follower's sink.
C1_GapFree ==
    \A f \in Repls :
      (rpc[f] \in {"unlock", "stream"} /\ ~sinks[f].closed) =>
        \A i \in (mark[f] + 1)..Len(added) :
          (added[i] \notin Range(snap[f][added[i].app]) /\ ReplicatorFed(added[i]))
            => added[i] \in Range(sinkLog[f])

\* C2: duplicate-free replication. No message contained in the snapshot a
\* follower copied is also delivered on that follower's sink.
C2_NoDuplicate ==
    \A f \in Repls :
      \A i \in 1..Len(sinkLog[f]) :
        sinkLog[f][i] \notin Range(snap[f][sinkLog[f][i].app])

\* C3: pause quiescence. While a caller holds a resume closure the run loop
\* is not mid-Add and has added nothing since Pause returned, every message
\* fed meanwhile is still in the inbound queue, and the buffers the caller
\* has copied hold exactly what the Adds completed before Pause returned
\* left in them.
C3_PauseQuiescent ==
    \A f \in Repls :
      HoldsResume(f) =>
        /\ Len(added) = mark[f]
        /\ runmsg = NoMsg
        /\ enq = added \o msgc
        /\ rpc[f] \in {"register", "unpause"} =>
             snap[f] = [a \in Apps |-> BufferAfter(mark[f], a)]

\* C3 witness: a snapshot has been copied during a pause while a message fed
\* meanwhile waits in the inbound queue and earlier messages are buffered.
C3_Witness ==
    \E f \in Repls :
      /\ rpc[f] = "register"
      /\ msgc # <<>>
      /\ \E a \in Apps : snap[f][a] # <<>>

\* C5: per-AppName FIFO ingest. For every AppName, the messages the run loop
\* has Added are, in order, the first of the messages Feed has enqueued for
\* that AppName.
C5_FIFO ==
    \A a \in Apps : IsPrefix(ByApp(added, a), ByApp(enq, a))

\* C5 witness: two messages of one AppName have been Added around a pause:
\* one before Pause returned and one after the resume.
C5_Witness ==
    \E a \in Apps, f \in Repls :
      /\ rpc[f] = "stream"
      /\ Len(ByApp(SubSeq(added, 1, mark[f]), a)) >= 1
      /\ Len(ByApp(added, a)) > Len(ByApp(SubSeq(added, 1, mark[f]), a))

\* C6: replication preserves per-AppName order. Two messages of one AppName
\* delivered on a follower's sink, neither of them in its snapshot, appear
\* there in the order in which the run loop added them to the leader's buffer.
C6_SinkOrder ==
    \A f \in Repls :
      \A i, j \in 1..Len(sinkLog[f]) :
        ( /\ i < j
          /\ sinkLog[f][i].app = sinkLog[f][j].app
          /\ sinkLog[f][i] \notin Range(snap[f][sinkLog[f][i].app])
          /\ sinkLog[f][j] \notin Range(snap[f][sinkLog[f][j].app])
          /\ sinkLog[f][i] \in Range(added)
          /\ sinkLog[f][j] \in Range(added) )
        => Pos(added, sinkLog[f][i]) < Pos(added, sinkLog[f][j])

\* C9: at most one Pause is outstanding. No two callers hold a resume closure
\* at once, and no two callers are at once between the Lock of a.pmu in
\* Pause and its Unlock in the resume closure.
C9_OnePause ==
    \A f, g \in Repls :
      f # g => ~(HoldsResume(f) /\ HoldsResume(g)) /\ ~(InPause(f) /\ InPause(g))

\* C9 witness: one caller holds a resume closure while a second caller is
\* blocked in Pause on a.pmu.
C9_Witness ==
    \E f, g \in Repls : HoldsResume(f) /\ rpc[g] = "lock" /\ pmu = f

\* C8: follow replaces local state. Once a follow has called Flush, no
\* message that Feed enqueued before that Flush is in any buffer.
C8_FollowReplaces ==
    nfollow >= 1 =>
      \A a \in Apps :
        \A i \in 1..Len(buffers[a].messages) :
          Pos(enq, buffers[a].messages[i]) > flushMark

\* C4: history then live. For a ReadLastNAndSubscribe without filters and
\* with n >= 0, whose subscriber channel has neither overflowed nor been
\* closed, the values sent so far followed by those still on their way (the
\* unsent history, the message in hand, the subscriber channel) are exactly
\* the last min(n, count) messages buffered at subscription time followed by
\* every message added for id since, in insertion order.
C4_HistoryThenLive ==
    \A r \in Readers :
      ( /\ qpc[r] \in {"hist", "live", "send"}
        /\ Len(qfil[r]) = 0
        /\ qn[r] >= 0
        /\ ~subc[r].lost
        /\ ~subc[r].closed )
      => out[r] \o qmsgs[r]
           \o (IF qpc[r] = "send" THEN <<qcur[r]>> ELSE <<>>)
           \o subc[r].q
         = LastN(BufferAfter(qmark[r], qid[r]), qn[r])
             \o ByApp(SubSeq(added, qmark[r] + 1, Len(added)), qid[r])

\* C4 witness: a subscriber without filters has been sent buffered history
\* and then a message added after it subscribed.
C4_Witness ==
    \E r \in Readers :
      /\ qpc[r] = "live"
      /\ Len(qfil[r]) = 0
      /\ qn[r] >= 1
      /\ ~subc[r].lost /\ ~subc[r].closed /\ ~done[r]
      /\ BufferAfter(qmark[r], qid[r]) # <<>>
      /\ Len(out[r]) > Len(LastN(BufferAfter(qmark[r], qid[r]), qn[r]))

\* C7: filtered ReadLastN. A ReadLastN with a non-empty filter list and
\* n > 0 that has sent all its messages has sent exactly the last min(n, k)
\* of the k buffered messages that match every filter, in insertion order.
C7_FilteredLastN ==
    \A r \in Readers :
      ( /\ qpc[r] = "ldone"
        /\ qmsgs[r] = <<>>
        /\ Len(qfil[r]) > 0
        /\ qn[r] > 0 )
      => LET Matches(m) == \A i \in 1..Len(qfil[r]) : m.seq \in qfil[r][i]
             matching == SelectSeq(BufferAfter(qmark[r], qid[r]), Matches)
         IN out[r] = LastN(matching, qn[r])

\* C7 witness: a filtered ReadLastN has finished with n messages while more
\* than n buffered messages matched, and one buffered message did not.
C7_Witness ==
    \E r \in Readers :
      /\ qpc[r] = "ldone"
      /\ qmsgs[r] = <<>>
      /\ Len(qfil[r]) > 0
      /\ qn[r] > 0
      /\ Len(out[r]) = qn[r]
      /\ Len(filterMessages(BufferAfter(qmark[r], qid[r]), qfil[r])) > qn[r]

\* C10: ReadLastNAndSubscribe stops when its subscriber channel closes. The
\* producer never goes on to send the value it received from the closed
\* channel, and no such value is ever sent on the output channel.
C10_StopsOnClose ==
    \A r \in Readers :
      /\ ~(qpc[r] = "send" /\ qcur[r] = NoMsg)
      /\ \A i \in 1..Len(out[r]) : out[r][i] # NoMsg

\* C11: Feed does not fail. No call of Aggregator.Feed, by a syslog
\* connection, a follow goroutine or LoadSnapshot, is a send on the closed
\* inbound channel, during or after Server.Shutdown.
C11_FeedNeverPanics == ~feedPanic

\* C12: Shutdown terminates; in particular no replication connection is
\* blocked in Aggregator.Pause, on the send to a.pausec, once the run loop
\* has exited.
C12_NoPauseAfterExit ==
    \A f \in Repls : ~(runpc = "exited" /\ rpc[f] = "send")

\* C13: Shutdown drains. When the run loop has exited the inbound channel is
\* closed and empty and every message a Feed enqueued has been Added, to the
\* buffer of its AppName (on a leader, where nothing flushes the buffers,
\* each buffer holds the last of them).
C13_Drains ==
    runpc = "exited" =>
      /\ msgcClosed
      /\ msgc = <<>>
      /\ runmsg = NoMsg
      /\ added = enq
      /\ \A a \in Apps : buffers[a].messages = BufferAfter(Len(enq), a)

\* C13 witness: the run loop has exited after adding messages that were
\* still queued when the inbound channel was closed.
C13_Witness ==
    /\ runpc = "exited"
    /\ Len(added) >= closeMark + 2

\* C14: cancellation by done. Once done is signalled the producer goroutine
\* of ReadLastN or ReadLastNAndSubscribe eventually returns and closes its
\* output channel, whether or not the caller still receives; the cancel
\* function of a subscription is called at most once, and exactly once by
\* the time ReadLastNAndSubscribe has returned.
C14_CancelByDone ==
    /\ \A r \in Readers : done[r] ~> outClosed[r]
    /\ [](\A r \in Readers :
            /\ ncancel[r] <= 1
            /\ qpc[r] = "done" => ncancel[r] = 1)

\* C14 witness: a subscription has returned on done in the middle of its
\* history, with a caller that no longer receives.
C14_Witness ==
    \E r \in Readers :
      /\ qpc[r] = "done"
      /\ done[r]
      /\ ~reading[r]
      /\ qmsgs[r] # <<>>
      /\ outClosed[r]
      /\ ncancel[r] = 1

\* C15: unfollow tears down the prior follow. Once monitorDiscoverd has
\* closed a follow goroutine's unfollowc, that goroutine enqueues no further
\* message with Aggregator.Feed.
C15_UnfollowStops ==
    [][\A g \in Follows :
         unf[g] = "closed" =>
           ~( /\ Len(enq') = Len(enq) + 1
              /\ enq'[Len(enq')].via = "follow"
              /\ enq'[Len(enq')].src = g )]_vars

\* C16: dial failure in follow. When follow returns an error, Flush has not
\* been called and the buffers are unchanged, no follow goroutine has been
\* started, unfollowc is nil and the controller is back at the receive on
\* s.eventc; from there the next EventKindLeader event for another instance
\* is taken and dials again.
C16_DialFailure ==
    /\ [][(ctlpc = "dial" /\ ctlpc' # "dial" /\ ctlerr') =>
            /\ buffers' = buffers
            /\ flushMark' = flushMark
            /\ nfollow' = nfollow
            /\ fpc' = fpc
            /\ unfollowc' = 0
            /\ ctlpc' = "events"]_vars
    /\ [][\A addr \in Addrs \ {0} :
            (ctlerr /\ CtlLeaderEvent(addr)) => (ctlpc' = "dial" /\ ctladdr' = addr)]_vars
    /\ []((ctlpc = "events" /\ ctlerr /\ nevents < MaxEvents) =>
            \A addr \in Addrs \ {0} : ENABLED CtlLeaderEvent(addr))

\* C16 witness: after a failed dial that left messages in the buffers, a
\* later leader event has made the controller dial again.
C16_Witness ==
    /\ ctlpc = "dial"
    /\ ctlerr
    /\ \E a \in Apps : buffers[a].messages # <<>>

\* C19: unfollow channels are closed safely. No unfollowc is closed twice;
\* the unfollowc monitorDiscoverd holds at its receive on s.eventc is nil or
\* an open channel, so that the close of the next leader event is the first
\* close of a channel that exists; once monitorDiscoverd has returned because
\* this instance is the leader, the channel of every follow goroutine is
\* closed and no further follow is started.
C19_SafeClose ==
    /\ [](/\ \A g \in Follows : unf[g] # "panic"
          /\ (ctlpc = "events" /\ unfollowc # 0) => unf[unfollowc] = "open"
          /\ ctlpc = "returned" => \A g \in Follows : unf[g] # "open")
    /\ [][ctlpc = "returned" => (ctlpc' = "returned" /\ nfollow' = nfollow)]_vars

\* C19 witness: after a follow, a leader event for another instance and a
\* second follow, monitorDiscoverd has closed the channel of the follow in
\* progress and returned as leader.
C19_Witness ==
    /\ ctlpc = "returned"
    /\ unfollowc # 0
    /\ unf[unfollowc] = "closed"
    /\ nevents = MaxEvents

\* C18: ReadLastN reads up to n logs. For every n >= 0 and every filter
\* list, empty or not, a ReadLastN sends at most n messages; with n = 0 it
\* sends none.
C18_AtMostN ==
    \A r \in Readers :
      (qpc[r] \in {"lsend", "ldone"} /\ qn[r] >= 0) => Len(out[r]) <= qn[r]

\* C17: ingest liveness across a pause. With every Pause resumed, no
\* Shutdown and fair scheduling, every message Feed has enqueued, while the
\* run loop was paused or not, is eventually Added, and every caller that
\* has entered Pause eventually holds the resume closure.
C17_IngestLive ==
    /\ \A i \in 1..MaxFrames :
         (Len(enq) >= i) ~> (Len(added) >= i /\ added[i] = enq[i])
    /\ \A f \in Repls : (rpc[f] \in {"lock", "send"}) ~> HoldsResume(f)

\* C17 witness: a message was enqueued while the run loop was paused, both
\* callers of Pause have resumed, and everything enqueued has been Added.
C17_Witness ==
    /\ pausedEnq
    /\ \A f \in Repls : rpc[f] = "stream"
    /\ Len(enq) = MaxFrames
    /\ added = enq

\* C20: lock order and deadlock freedom. No goroutine that is about to take
\* a.bmu holds a buffer's lock; the run loop does not hold a.bmu when Add
\* takes the buffer's lock, nor does any goroutine that looked a buffer up;
\* Flush and CopyBuffers hold a.bmu whenever they hold a buffer's lock; and
\* in every state some goroutine can take its next step.
C20_LockOrder ==
    /\ \A t \in Threads :
         lkpc[t] = "idle" => \A a \in Apps : rmu[a] # t
    /\ \A t \in LookupThreads :
         lkpc[t] \in {"got", "buf", "subscribed", "cancel"} => bmu # t
    /\ \A t \in SweepThreads, a \in Apps : rmu[a] = t => bmu = t
    /\ ENABLED NextLock

\* C20 witness: Flush holds a.bmu and waits for the lock of a buffer that
\* the run loop holds in Add, while CopyBuffers and ReadLastN wait for a.bmu
\* and the subscriber has its cancel still to call.
C20_Witness ==
    /\ bmu = "flush"
    /\ lkpc["flush"] = "map"
    /\ rmu[lkid["flush"]] = "run"
    /\ lkpc["copy"] = "idle"
    /\ lkpc["last"] = "idle"
    /\ lkpc["sub"] = "subscribed"
====
